---- MODULE Spec2Model ----
(***************************************************************************)
(* Model of open-knowledge-graph-resources.                                *)
(*                                                                         *)
(*   app.py                    the Streamlit script: the two SPARQL query  *)
(*                             templates, run_wdqs (one GET, one retry     *)
(*                             after a 429), query_to_df (the row loop),   *)
(*                             the derived columns and the two sorts.      *)
(*   scripts/build_catalog.py  load_resources over the YAML files, then    *)
(*                             write_csv and write_ttl.                    *)
(*                                                                         *)
(* Python strings are sequences of one-character strings, so that strip,   *)
(* split, int() and comparison are computed and not assumed.               *)
(***************************************************************************)
EXTENDS Integers, Sequences, FiniteSets, TLC

VARIABLES
    RESOURCE_KIND,  \* app.py:16  the selectbox value
    LIMIT,          \* app.py:21  the slider value
    query,          \* app.py:155 the query text handed to query_to_df
    pc,             \* position of the script / of run_wdqs
    nrequests,      \* number of requests.get calls issued by run_wdqs
    sleeps,         \* the arguments of the time.sleep calls made, in order
    r,              \* the response object run_wdqs holds
    log,            \* the responses the endpoint has sent, in order, without the rows
    err,            \* the exception that ended the script, if any
    data,           \* what run_wdqs returned (r.json())
    df,             \* the DataFrame, a sequence of row records
    files,          \* build_catalog: iter_yaml_files(resources_dir)
    idx,            \* build_catalog: number of files load_resources has consumed
    items,          \* build_catalog: the Resource list built so far
    csv,            \* build_catalog: the rows of dist/catalog.csv, once written
    ttl             \* build_catalog: the subjects of dist/catalog.ttl, once written

vars == <<RESOURCE_KIND, LIMIT, query, pc, nrequests, sleeps, r, log, err, data, df,
          files, idx, items, csv, ttl>>
catVars == <<files, idx, items, csv, ttl>>

(***************************************************************************)
(* Bounds of the model.                                                    *)
(***************************************************************************)
MaxHeaderLen == 2   \* longest Retry-After header value enumerated
MaxSiteLen == 5     \* longest "Official websites" text enumerated
FlattenRows == 2    \* most bindings in a response, flattening runs
SortRows == 2       \* most bindings in a response, sorting runs
MaxFiles == 2       \* most YAML files under resources/

(***************************************************************************)
(* Strings.                                                                *)
(***************************************************************************)
RECURSIVE SeqsUpTo(_, _)
SeqsUpTo(S, n) ==
    IF n = 0 THEN {<<>>}
    ELSE LET shorter == SeqsUpTo(S, n - 1)
         IN  shorter \cup {Append(s, c) : s \in {t \in shorter : Len(t) = n - 1}, c \in S}

Digits == <<"0", "1", "2", "3", "4", "5", "6", "7", "8", "9">>
IsDigit(c) == \E i \in 1..10 : Digits[i] = c
DigitVal(c) == (CHOOSE i \in 1..10 : Digits[i] = c) - 1

\* Code points of the characters the model uses (Python compares str by code point).
Ord(c) ==
    CASE c = " " -> 32
      [] c = "-" -> 45
      [] c = "|" -> 124
      [] c = "A" -> 65
      [] c = "B" -> 66
      [] c = "a" -> 97
      [] c = "b" -> 98
      [] IsDigit(c) -> 48 + DigitVal(c)
      [] OTHER -> 120

\* str.__lt__: lexicographic by code point, a proper prefix is smaller.
RECURSIVE StrLess(_, _)
StrLess(a, b) ==
    IF b = <<>> THEN FALSE
    ELSE IF a = <<>> THEN TRUE
    ELSE IF Ord(Head(a)) # Ord(Head(b)) THEN Ord(Head(a)) < Ord(Head(b))
    ELSE StrLess(Tail(a), Tail(b))

IsSpace(c) == c = " "

RECURSIVE LStrip(_)
LStrip(s) == IF s # <<>> /\ IsSpace(Head(s)) THEN LStrip(Tail(s)) ELSE s

RECURSIVE RStrip(_)
RStrip(s) ==
    IF s # <<>> /\ IsSpace(s[Len(s)]) THEN RStrip(SubSeq(s, 1, Len(s) - 1)) ELSE s

\* str.strip()
Strip(s) == RStrip(LStrip(s))

StartsWith(s, p) == Len(p) <= Len(s) /\ SubSeq(s, 1, Len(p)) = p

\* str.split(sep): the segments between the occurrences of the literal sep.
RECURSIVE SplitFrom(_, _, _)
SplitFrom(s, sep, cur) ==
    IF s = <<>> THEN <<cur>>
    ELSE IF StartsWith(s, sep)
         THEN <<cur>> \o SplitFrom(SubSeq(s, Len(sep) + 1, Len(s)), sep, <<>>)
         ELSE SplitFrom(Tail(s), sep, Append(cur, Head(s)))

SplitLiteral(s, sep) == SplitFrom(s, sep, <<>>)

\* The alternatives of a regular expression made of literal characters and "|".
ReAlternatives(pat) == SplitLiteral(pat, <<"|">>)

\* re.split for such an expression: at each position the first alternative that
\* matches (and is not empty) is consumed as a separator.
RECURSIVE ReSplitFrom(_, _, _)
ReSplitFrom(s, alts, cur) ==
    IF s = <<>> THEN <<cur>>
    ELSE LET hits == {i \in 1..Len(alts) : alts[i] # <<>> /\ StartsWith(s, alts[i])}
         IN  IF hits # {}
             THEN LET a == alts[CHOOSE i \in hits : \A j \in hits : i <= j]
                  IN  <<cur>> \o ReSplitFrom(SubSeq(s, Len(a) + 1, Len(s)), alts, <<>>)
             ELSE ReSplitFrom(Tail(s), alts, Append(cur, Head(s)))

\* pandas Series.str.split(pat) with regex=None: a pattern of one character is a
\* literal, any other pattern is compiled as a regular expression.
PandasStrSplit(s, pat) ==
    IF Len(pat) = 1 THEN SplitLiteral(s, pat) ELSE ReSplitFrom(s, ReAlternatives(pat), <<>>)

RECURSIVE DigitsValue(_)
DigitsValue(s) ==
    IF s = <<>> THEN 0 ELSE 10 * DigitsValue(SubSeq(s, 1, Len(s) - 1)) + DigitVal(s[Len(s)])

\* Python int(str): surrounding whitespace is dropped, one sign is allowed, and at
\* least one digit must follow; anything else raises ValueError.
PyInt(s) ==
    LET t == Strip(s)
        signed == t # <<>> /\ Head(t) \in {"-", "+"}
        body == IF signed THEN Tail(t) ELSE t
        ok == body # <<>> /\ \A i \in 1..Len(body) : IsDigit(body[i])
    IN  [ok |-> ok,
         val |-> IF ~ok THEN 0
                 ELSE IF signed /\ Head(t) = "-" THEN 0 - DigitsValue(body)
                 ELSE DigitsValue(body)]

RECURSIVE NatToStr(_)
NatToStr(n) == IF n < 10 THEN <<Digits[n + 1]>> ELSE NatToStr(n \div 10) \o <<Digits[(n % 10) + 1]>>

\* format(int) as an f-string replacement field does it.
IntToStr(n) == IF n < 0 THEN <<"-">> \o NatToStr(0 - n) ELSE NatToStr(n)

(***************************************************************************)
(* The widgets and the query templates.                                    *)
(***************************************************************************)
Ontologies == "Ontologies + Controlled Vocabularies"
Software == "Software (semantic / KG tools)"
ResourceKinds == {Ontologies, Software}

SliderMin == 50
SliderMax == 2000
SliderStep == 50
SliderDefault == 500
SliderValues == {v \in SliderMin..SliderMax : (v - SliderMin) % SliderStep = 0}

\* The f-string templates: the fixed text before and after the replacement field
\* is one token each, the replacement field is the decimal text of LIMIT.
BASE_QUERY_ONTO_VOCAB(limit) ==
    <<"SELECT ?item ?itemLabel ?officialWebsites ?licenses ?partOf ... ", "LIMIT ">>
        \o IntToStr(limit) \o <<" ... GROUP BY ?item ?itemLabel">>

BaseQuerySoftwareDefaultLimit(limit) ==
    <<"SELECT ?item ?itemLabel ?officialWebsites ?licenses ?partOf ?latestVersion ?latestReleaseDate ... ",
      "LIMIT ">>
        \o IntToStr(SliderDefault) \o <<" ... GROUP BY ?item ?itemLabel">>

BASE_QUERY_SOFTWARE(limit) ==
    <<"SELECT ?item ?itemLabel ?officialWebsites ?licenses ?partOf ?latestVersion ?latestReleaseDate ... ",
      "LIMIT ">>
        \o IntToStr(limit) \o <<" ... GROUP BY ?item ?itemLabel">>

NoQuery == <<>>

is_software == RESOURCE_KIND = Software

(***************************************************************************)
(* run_wdqs.                                                               *)
(***************************************************************************)
NoErr == [type |-> "none", status |-> 0]
HTTPError(status) == [type |-> "HTTPError", status |-> status]
ValueError == [type |-> "ValueError", status |-> 0]
JSONDecodeError == [type |-> "JSONDecodeError", status |-> 0]
KeyError == [type |-> "KeyError", status |-> 0]
RequestException == [type |-> "RequestException", status |-> 0]

NoHeader == [present |-> FALSE, value |-> <<>>]
Header(v) == [present |-> TRUE, value |-> v]
NoBody == [json |-> FALSE, bindings |-> <<>>]
JsonBody(bs) == [json |-> TRUE, bindings |-> bs]
NoResponse == [status |-> 0, retry_after |-> NoHeader, body |-> NoBody]
Response(status, h, body) == [status |-> status, retry_after |-> h, body |-> body]
Sent(resp) == [status |-> resp.status, retry_after |-> resp.retry_after, json |-> resp.body.json]

\* r.headers.get("Retry-After", "5")
HeaderOrDefault(resp) ==
    IF resp.retry_after.present THEN resp.retry_after.value ELSE <<"5">>

\* requests.Response.raise_for_status raises for 4xx and 5xx, and for nothing else.
RaisesForClientErrors(status) == 400 <= status /\ status < 500
RaisesForStatus(status) == 400 <= status /\ status < 600

AppStep(next) ==
    /\ pc' = next
    /\ UNCHANGED catVars

Fail(e) ==
    /\ pc' = "error"
    /\ err' = e

\* app.py:32-155: both templates are formatted, one is selected.
BuildQuery ==
    /\ pc = "build"
    /\ query' = IF RESOURCE_KIND = Ontologies   \* .startswith("Ontologies")
                THEN BASE_QUERY_ONTO_VOCAB(LIMIT)
                ELSE BASE_QUERY_SOFTWARE(LIMIT)
    /\ AppStep("get")
    /\ UNCHANGED <<RESOURCE_KIND, LIMIT, nrequests, sleeps, r, log, err, data, df>>

\* app.py:129: the first requests.get returns a response.
FirstGet(Resps) ==
    /\ pc = "get"
    /\ \E resp \in Resps :
          /\ r' = resp
          /\ log' = Append(log, Sent(resp))
    /\ nrequests' = nrequests + 1
    /\ AppStep("check")
    /\ UNCHANGED <<RESOURCE_KIND, LIMIT, query, sleeps, err, data, df>>

\* app.py:129, 134: requests.get raises (timeout, connection error); nothing
\* in run_wdqs catches it.
GetRaises ==
    /\ pc \in {"get", "retry"}
    /\ nrequests' = nrequests + 1
    /\ Fail(RequestException)
    /\ UNCHANGED catVars
    /\ UNCHANGED <<RESOURCE_KIND, LIMIT, query, sleeps, r, log, data, df>>

\* app.py:130-133: on 429, int() of the header and time.sleep; int() raises
\* ValueError on text that is no integer, time.sleep raises ValueError on a
\* negative length.
RateLimited ==
    /\ pc = "check"
    /\ IF r.status = 429
       THEN LET retry_after == PyInt(HeaderOrDefault(r))
            IN  IF retry_after.ok /\ retry_after.val >= 0
                THEN /\ sleeps' = Append(sleeps, retry_after.val)
                     /\ pc' = "retry"
                     /\ err' = err
                ELSE /\ Fail(ValueError)
                     /\ sleeps' = sleeps
       ELSE /\ pc' = "raise"
            /\ UNCHANGED <<sleeps, err>>
    /\ UNCHANGED catVars
    /\ UNCHANGED <<RESOURCE_KIND, LIMIT, query, nrequests, r, log, data, df>>

\* app.py:134: the one retry.
RetryGet(Resps) ==
    /\ pc = "retry"
    /\ \E resp \in Resps :
          /\ r' = resp
          /\ log' = Append(log, Sent(resp))
    /\ nrequests' = nrequests + 1
    /\ AppStep("raise")
    /\ UNCHANGED <<RESOURCE_KIND, LIMIT, query, sleeps, err, data, df>>

\* app.py:135-136 and 140: raise_for_status, then r.json() is handed to query_to_df.
RaiseForStatus ==
    /\ pc = "raise"
    /\ IF RaisesForStatus(r.status)
       THEN Fail(HTTPError(r.status)) /\ UNCHANGED <<r, data>>
       ELSE IF ~r.body.json
            THEN Fail(JSONDecodeError) /\ UNCHANGED <<r, data>>
            ELSE /\ data' = r.body.bindings
                 /\ r' = NoResponse        \* run_wdqs has returned
                 /\ pc' = "flatten"
                 /\ err' = err
    /\ UNCHANGED catVars
    /\ UNCHANGED <<RESOURCE_KIND, LIMIT, query, nrequests, sleeps, log, df>>

(***************************************************************************)
(* query_to_df: the row loop.                                              *)
(***************************************************************************)
\* A binding is a function from the variable names the row binds to their
\* "value" text.  None is what a missing default would leave in a cell.
None == <<"<None>">>

Required(b) == {"item", "itemLabel"} \subseteq DOMAIN b

\* b.get(k, {}).get("value", "")
GetValueOrNone(b, k) == IF k \in DOMAIN b THEN b[k] ELSE None
GetValue(b, k) == IF k \in DOMAIN b THEN b[k] ELSE <<>>

\* app.py:143-151
FlattenRow(b) ==
    [Item |-> b["itemLabel"],
     Wikidata |-> b["item"],
     Official_websites |-> GetValue(b, "officialWebsites"),
     Licenses |-> GetValue(b, "licenses"),
     Part_of |-> GetValue(b, "partOf"),
     latest_release |-> GetValue(b, "latestReleaseDate")]

\* app.py:141-152: rows.append for each binding, in order.
RECURSIVE Rows(_)
Rows(bindings) ==
    IF bindings = <<>> THEN <<>>
    ELSE <<FlattenRow(Head(bindings))>> \o Rows(Tail(bindings))

\* b["itemLabel"] or b["item"] of a row that lacks it raises KeyError.
QueryToDf ==
    /\ pc = "flatten"
    /\ IF \A i \in 1..Len(data) : Required(data[i])
       THEN /\ df' = Rows(data)
            /\ pc' = "enrich"
            /\ err' = err
       ELSE Fail(KeyError) /\ df' = df
    /\ UNCHANGED catVars
    /\ UNCHANGED <<RESOURCE_KIND, LIMIT, query, nrequests, sleeps, r, log, data>>

(***************************************************************************)
(* The derived columns, app.py:163-168.                                    *)
(***************************************************************************)
Delimiter == <<" ", "|", " ">>

\* .str.strip().ne("")
NonBlank(s) == Strip(s) # <<>>

\* .str.split(" | ").str[0].fillna("")
FirstSegment(s) == PandasStrSplit(s, Delimiter)[1]

EnrichRow(row) ==
    row @@ [Has_website |-> NonBlank(row.Official_websites),
            Has_license |-> NonBlank(row.Licenses),
            Wikidata_page |-> row.Wikidata,
            Official_website |-> FirstSegment(row.Official_websites)]

\* pd.DataFrame([]) has no columns, so df["Official websites"] raises KeyError.
Enrich ==
    /\ pc = "enrich"
    /\ IF df = <<>>
       THEN Fail(KeyError) /\ df' = df
       ELSE /\ df' = [i \in 1..Len(df) |-> EnrichRow(df[i])]
            /\ pc' = "sort"
            /\ err' = err
    /\ UNCHANGED catVars
    /\ UNCHANGED <<RESOURCE_KIND, LIMIT, query, nrequests, sleeps, r, log, data>>

(***************************************************************************)
(* pd.to_datetime(errors="coerce") and DataFrame.sort_values.              *)
(***************************************************************************)
NaT == [isNaT |-> TRUE, t |-> 0]
Timestamp(t) == [isNaT |-> FALSE, t |-> t]

\* Text of the form YYYY-MM-DD with a month 01..12 and a day 01..31 is a date;
\* errors="coerce" turns everything else, the empty text included, into NaT.
ToDatetime(s) ==
    LET shaped == /\ Len(s) = 10
                  /\ s[5] = "-" /\ s[8] = "-"
                  /\ \A i \in {1, 2, 3, 4, 6, 7, 9, 10} : IsDigit(s[i])
        y == DigitsValue(SubSeq(s, 1, 4))
        m == DigitsValue(SubSeq(s, 6, 7))
        d == DigitsValue(SubSeq(s, 9, 10))
    IN  IF shaped /\ m \in 1..12 /\ d \in 1..31
        THEN Timestamp(y * 10000 + m * 100 + d)
        ELSE NaT

\* The order of the values of a column: timestamps by time, booleans False < True,
\* text by code point.
ValLess(col, a, b) ==
    CASE col = "latest_release" -> a.t < b.t
      [] col \in {"Has_website", "Has_license"} -> a = FALSE /\ b = TRUE
      [] OTHER -> StrLess(a, b)

IsNA(col, v) == col = "latest_release" /\ v.isNaT

\* lexsort_indexer: the code of a value is its rank among the distinct values of
\* the column; a descending key reverses the codes; a missing value gets the
\* largest code whatever the direction (na_position="last").
CodeNAFirst(frame, col, asc, i) ==
    LET v == frame[i][col]
        vals == {frame[j][col] : j \in {k \in 1..Len(frame) : ~IsNA(col, frame[k][col])}}
        n == Cardinality(vals)
        c == Cardinality({w \in vals : ValLess(col, w, v)})
    IN  IF IsNA(col, v) THEN 0 - 1 ELSE IF asc THEN c ELSE n - c - 1

Code(frame, col, asc, i) ==
    LET v == frame[i][col]
        vals == {frame[j][col] : j \in {k \in 1..Len(frame) : ~IsNA(col, frame[k][col])}}
        n == Cardinality(vals)
        c == Cardinality({w \in vals : ValLess(col, w, v)})
    IN  IF IsNA(col, v) THEN n ELSE IF asc THEN c ELSE n - c - 1

Labels(frame, by, ascending) ==
    [i \in 1..Len(frame) |-> [k \in 1..Len(by) |-> Code(frame, by[k], ascending[k], i)]]

RECURSIVE TupleLess(_, _)
TupleLess(a, b) ==
    IF a = <<>> THEN FALSE
    ELSE IF Head(a) # Head(b) THEN Head(a) < Head(b)
    ELSE TupleLess(Tail(a), Tail(b))

RECURSIVE InsertBeforeTies(_, _, _)
InsertBeforeTies(out, i, labels) ==
    IF out = <<>> THEN <<i>>
    ELSE IF ~TupleLess(labels[Head(out)], labels[i]) THEN <<i>> \o out
    ELSE <<Head(out)>> \o InsertBeforeTies(Tail(out), i, labels)

\* One step of a stable sort: i, later in the input than everything in out, goes
\* in front of the first element with a strictly larger key.
RECURSIVE Insert(_, _, _)
Insert(out, i, labels) ==
    IF out = <<>> THEN <<i>>
    ELSE IF TupleLess(labels[i], labels[Head(out)]) THEN <<i>> \o out
    ELSE <<Head(out)>> \o Insert(Tail(out), i, labels)

\* np.lexsort over the label columns: a stable sort of the row positions.
RECURSIVE LexSort(_, _)
LexSort(labels, n) ==
    IF n = 0 THEN <<>> ELSE Insert(LexSort(labels, n - 1), n, labels)

\* DataFrame.sort_values(by=[several columns], ascending=[...])
SortValues(frame, by, ascending) ==
    LET order == LexSort(Labels(frame, by, ascending), Len(frame))
    IN  [k \in 1..Len(frame) |-> frame[order[k]]]

SoftwareBy == <<"latest_release", "Has_website", "Has_license", "Item">>
SoftwareAscending == <<FALSE, FALSE, FALSE, TRUE>>
OntologyByLicenseFirst == <<"Has_license", "Has_website", "Item">>
OntologyBy == <<"Has_website", "Has_license", "Item">>
OntologyAscending == <<FALSE, FALSE, TRUE>>

\* app.py:171-179 and 199-207
Sort ==
    /\ pc = "sort"
    /\ IF is_software
       THEN LET parsed == [i \in 1..Len(df) |->
                              [df[i] EXCEPT !.latest_release = ToDatetime(@)]]
            IN  df' = SortValues(parsed, SoftwareBy, SoftwareAscending)
       ELSE df' = SortValues(df, OntologyBy, OntologyAscending)
    /\ AppStep("project")
    /\ UNCHANGED <<RESOURCE_KIND, LIMIT, query, nrequests, sleeps, r, log, err, data>>

SoftwareCols == {"Item", "latest_release", "Licenses", "Official_website", "Wikidata_page"}
OntologyCols == {"Item", "Licenses", "Official_website", "Wikidata_page", "Part_of"}

\* app.py:181-190, 209-217 and 225: the column projection.
Project ==
    /\ pc = "project"
    /\ LET cols == IF is_software THEN SoftwareCols ELSE OntologyCols
       IN  df' = [i \in 1..Len(df) |-> [c \in cols |-> df[i][c]]]
    /\ AppStep("done")
    /\ UNCHANGED <<RESOURCE_KIND, LIMIT, query, nrequests, sleeps, r, log, err, data>>

(***************************************************************************)
(* What the endpoint may answer.                                           *)
(***************************************************************************)
QId(i) == <<"Q", Digits[i + 1]>>

\* Bindings: each row body gets the subject of its position, so that "item" is
\* unique within a result set (the queries GROUP BY ?item).
WithItems(bodies) == [i \in 1..Len(bodies) |-> bodies[i] @@ [item |-> QId(i)]]
Bindings(RowBodies, n) == {WithItems(bodies) : bodies \in SeqsUpTo(RowBodies, n)}

\* The functions over the subsets of Keys, each key ranging over Values[key].
Partial(Keys, Values) ==
    UNION {[S -> UNION {Values[k] : k \in S}] : S \in SUBSET Keys}
PartialRows(Keys, Values) ==
    {f \in Partial(Keys, Values) : \A k \in DOMAIN f : f[k] \in Values[k]}

D2020 == <<"2", "0", "2", "0", "-", "0", "1", "-", "0", "1">>
D2022 == <<"2", "0", "2", "2", "-", "0", "5", "-", "0", "1">>
BadMonth == <<"2", "0", "2", "1", "-", "1", "3", "-", "0", "1">>

OneRow == WithItems(<<[itemLabel |-> <<"A">>, officialWebsites |-> <<"x">>]>>)

Statuses == {200, 304, 404, 429, 500}
HeaderChars == {"2", "7", "-", "x"}
Headers == {NoHeader} \cup {Header(v) : v \in SeqsUpTo(HeaderChars, MaxHeaderLen)}

\* Any status with any Retry-After header, the body JSON or not.
AnyResponses ==
    {Response(st, h, b) : st \in Statuses, h \in Headers,
                          b \in {NoBody, JsonBody(<<>>), JsonBody(OneRow)}}

\* A rate-limited first answer and a good second one, so that every run below
\* also covers the retry path.
Busy == Response(429, Header(<<"2">>), NoBody)
Good == Response(200, NoHeader, JsonBody(OneRow))

Ok(RowBodies, n) == {Response(200, NoHeader, JsonBody(bs)) : bs \in Bindings(RowBodies, n)}

\* Rows with any subset of the optional variables (and, to reach the KeyError
\* of the row loop, possibly without itemLabel).
FlattenRowBodies ==
    PartialRows({"itemLabel", "officialWebsites", "licenses", "partOf", "latestReleaseDate"},
                [itemLabel |-> {<<"A">>}, officialWebsites |-> {<<"x">>},
                 licenses |-> {<<"M">>}, partOf |-> {<<"B">>},
                 latestReleaseDate |-> {D2020}])

\* One row whose websites text is any text over the characters of the delimiter
\* and a letter.
SiteChars == {"x", " ", "|"}
EnrichRowBodies ==
    {[itemLabel |-> <<"A">>, officialWebsites |-> w, licenses |-> l] :
        w \in SeqsUpTo(SiteChars, MaxSiteLen), l \in {<<>>, <<" ">>, <<"M">>}}

\* Rows that differ in every sort key: two labels, a website or none, a license
\* or none, and a release date that is absent, no date, or one of two dates.
SortRowBodies ==
    {f \in PartialRows({"itemLabel", "officialWebsites", "licenses", "latestReleaseDate"},
                       [itemLabel |-> {<<"A">>, <<"B">>}, officialWebsites |-> {<<"x">>},
                        licenses |-> {<<"M">>},
                        latestReleaseDate |-> {D2020, D2022, BadMonth}]) :
        "itemLabel" \in DOMAIN f}

NotWritten == [written |-> FALSE, rows |-> <<>>]

InitApp(Limits) ==
    /\ RESOURCE_KIND \in ResourceKinds
    /\ LIMIT \in Limits
    /\ query = NoQuery
    /\ pc = "build"
    /\ nrequests = 0
    /\ sleeps = <<>>
    /\ r = NoResponse
    /\ log = <<>>
    /\ err = NoErr
    /\ data = <<>>
    /\ df = <<>>
    /\ files = <<>>
    /\ idx = 0
    /\ items = <<>>
    /\ csv = NotWritten
    /\ ttl = NotWritten

NextApp(First, Second) ==
    \/ BuildQuery
    \/ FirstGet(First)
    \/ GetRaises
    \/ RateLimited
    \/ RetryGet(Second)
    \/ RaiseForStatus
    \/ QueryToDf
    \/ Enrich
    \/ Sort
    \/ Project

\* The transport client against every answer of the endpoint.
Init == InitApp({SliderDefault})
Next == NextApp(AnyResponses, AnyResponses)
Spec == Init /\ [][Next]_vars

\* The templates on the slider's values and on limits the slider never yields.
NonSliderLimits == {0 - 1, 0, 1}
InitQuery == InitApp(SliderValues \cup NonSliderLimits)
NextQuery == NextApp({Busy, Good}, {Good})
SpecQuery == InitQuery /\ [][NextQuery]_vars

NextFlatten == NextApp({Busy} \cup Ok(FlattenRowBodies, FlattenRows), {Good})
SpecFlatten == Init /\ [][NextFlatten]_vars

NextEnrich == NextApp({Busy} \cup Ok(EnrichRowBodies, 1), {Good})
SpecEnrich == Init /\ [][NextEnrich]_vars

NextSort == NextApp({Busy} \cup Ok(SortRowBodies, SortRows), {Good})
SpecSort == Init /\ [][NextSort]_vars

(***************************************************************************)
(* scripts/build_catalog.py                                                *)
(***************************************************************************)
\* YAML scalars: null, text, booleans, and numbers (which are neither).
Null == [t |-> "null", s |-> <<>>, b |-> FALSE]
Str(s) == [t |-> "str", s |-> s, b |-> FALSE]
Bool(b) == [t |-> "bool", s |-> <<>>, b |-> b]

ALLOWED_KINDS ==
    {<<"ontology">>, <<"taxonomy">>, <<"vocabulary">>, <<"reference-dataset">>, <<"schema">>}

\* _req: the key must exist and be neither None nor "".
Req(obj, key) ==
    IF key \notin DOMAIN obj \/ obj[key] = Null \/ obj[key] = Str(<<>>)
    THEN [ok |-> FALSE, value |-> Null]
    ELSE [ok |-> TRUE, value |-> obj[key]]

\* str.lower() on the letters the model uses.
LowerChar(c) ==
    CASE c = "Y" -> "y"
      [] c = "N" -> "n"
      [] c = "O" -> "o"
      [] OTHER -> c
Lower(s) == [i \in 1..Len(s) |-> LowerChar(s[i])]

TrueWords == {<<"t", "r", "u", "e">>, <<"y", "e", "s">>, <<"y">>, <<"1">>}
FalseWords == {<<"f", "a", "l", "s", "e">>, <<"n", "o">>, <<"n">>, <<"0">>}

\* _bool_or_none: None and "" give None, a bool is itself, text is matched after
\* strip().lower(); anything else raises ValueError.
BoolOrNoneLenient(v) ==
    IF v.t = "bool" THEN [ok |-> TRUE, value |-> v] ELSE [ok |-> TRUE, value |-> Null]
BoolOrNone(v) ==
    IF v = Null \/ v = Str(<<>>) THEN [ok |-> TRUE, value |-> Null]
    ELSE IF v.t = "bool" THEN [ok |-> TRUE, value |-> v]
    ELSE IF v.t = "str" /\ Lower(Strip(v.s)) \in TrueWords THEN [ok |-> TRUE, value |-> Bool(TRUE)]
    ELSE IF v.t = "str" /\ Lower(Strip(v.s)) \in FalseWords THEN [ok |-> TRUE, value |-> Bool(FALSE)]
    ELSE [ok |-> FALSE, value |-> Null]

\* data.get(key)
Get(obj, key) == IF key \in DOMAIN obj THEN obj[key] ELSE Null

SystemExit == [type |-> "SystemExit", status |-> 0]

CatStep(next) ==
    /\ pc' = next
    /\ UNCHANGED <<RESOURCE_KIND, LIMIT, query, nrequests, sleeps, r, log, data, df>>

\* build_catalog.py:86-130: one turn of the loop of load_resources.  A file whose
\* name starts with "_" is skipped after it was parsed; any ValueError leaves
\* load_resources and main.
LoadFile ==
    /\ pc = "load"
    /\ idx < Len(files)
    /\ LET fp == files[idx + 1]
           d == fp.data
           rid == Req(d, "id")
           name == Req(d, "name")
           kind == Req(d, "kind")
           free == BoolOrNone(Get(d, "free"))
       IN  IF fp.underscore
           THEN /\ idx' = idx + 1
                /\ CatStep("load")
                /\ UNCHANGED <<items, err>>
           ELSE IF /\ rid.ok /\ name.ok /\ kind.ok
                   /\ kind.value.t = "str" /\ kind.value.s \in ALLOWED_KINDS
                   /\ free.ok
                THEN /\ items' = Append(items, [id |-> rid.value, name |-> name.value,
                                                kind |-> kind.value, free |-> free.value])
                     /\ idx' = idx + 1
                     /\ CatStep("load")
                     /\ err' = err
                ELSE /\ Fail(ValueError)
                     /\ UNCHANGED <<RESOURCE_KIND, LIMIT, query, nrequests, sleeps, r, log, data, df>>
                     /\ UNCHANGED <<idx, items>>
    /\ UNCHANGED <<files, csv, ttl>>

\* build_catalog.py:131 and 272-274: load_resources returns; no resource at all
\* ends main with SystemExit.
Loaded ==
    /\ pc = "load"
    /\ idx = Len(files)
    /\ IF items = <<>>
       THEN /\ Fail(SystemExit)
            /\ UNCHANGED <<RESOURCE_KIND, LIMIT, query, nrequests, sleeps, r, log, data, df>>
       ELSE CatStep("write_csv") /\ err' = err
    /\ UNCHANGED catVars

\* "" if r.free is None else str(r.free).lower()
FreeText(v) == IF v = Null THEN <<>> ELSE IF v.b THEN <<"true">> ELSE <<"false">>

\* build_catalog.py:279, write_csv: one row per resource.
WriteCsv ==
    /\ pc = "write_csv"
    /\ csv' = [written |-> TRUE,
               rows |-> [i \in 1..Len(items) |->
                            [id |-> items[i].id, name |-> items[i].name,
                             kind |-> items[i].kind, free |-> FreeText(items[i].free)]]]
    /\ CatStep("write_ttl")
    /\ UNCHANGED <<files, idx, items, ttl, err>>

\* build_catalog.py:282, write_ttl: one subject per resource.
WriteTtl ==
    /\ pc = "write_ttl"
    /\ ttl' = [written |-> TRUE, rows |-> [i \in 1..Len(items) |-> items[i].id]]
    /\ CatStep("built")
    /\ UNCHANGED <<files, idx, items, csv, err>>

\* The YAML files.  A resource file has id or not, a name that may be empty, a
\* kind that may be null or not allowed, and free absent, a bool, good text or
\* bad text; a template (leading underscore) is empty or is a broken resource.
YamlData ==
    {f \in PartialRows({"id", "name", "kind", "free"},
                       [id |-> {Str(<<"r1">>)},
                        name |-> {Str(<<"n">>), Str(<<>>)},
                        kind |-> {Str(<<"ontology">>), Str(<<"banana">>), Null},
                        free |-> {Bool(FALSE), Str(<<" ", "Y">>), Str(<<"2">>)}]) :
        {"name", "kind"} \subseteq DOMAIN f}
EmptyYaml == [k \in {} |-> Null]
YamlFiles ==
    {[underscore |-> FALSE, data |-> d] : d \in YamlData}
        \cup {[underscore |-> TRUE, data |-> d] : d \in {EmptyYaml, [kind |-> Str(<<"banana">>)]}}

InitCatalog ==
    /\ RESOURCE_KIND = Ontologies
    /\ LIMIT = SliderDefault
    /\ query = NoQuery
    /\ pc = "load"
    /\ nrequests = 0
    /\ sleeps = <<>>
    /\ r = NoResponse
    /\ log = <<>>
    /\ err = NoErr
    /\ data = <<>>
    /\ df = <<>>
    /\ files \in SeqsUpTo(YamlFiles, MaxFiles)
    /\ idx = 0
    /\ items = <<>>
    /\ csv = NotWritten
    /\ ttl = NotWritten

NextCatalog ==
    \/ LoadFile
    \/ Loaded
    \/ WriteCsv
    \/ WriteTtl

SpecCatalog == InitCatalog /\ [][NextCatalog]_vars

(***************************************************************************)
(* The claims.                                                             *)
(***************************************************************************)
InFlight == pc \in {"build", "get", "check", "retry", "raise"}
Returned ==
    \/ pc \in {"flatten", "enrich", "sort", "project", "done"}
    \/ pc = "error" /\ err = KeyError
FirstStatus == log[1].status
FirstHeader == log[1].retry_after
IsNumberText(v) == v # <<>> /\ \A i \in 1..Len(v) : IsDigit(v[i])

\* C1: whatever the endpoint answers, a first 429 leads to exactly one sleep and
\* exactly one re-issued request; a good second answer is then returned after 2
\* requests, a second 429 ends the call with HTTPError 429 after 2 requests; no
\* run issues a third request or sleeps twice.
C1_ExactlyOneRetry ==
    /\ nrequests <= 2
    /\ Len(sleeps) <= 1
    /\ (Len(log) >= 1 /\ FirstStatus = 429 /\ ~InFlight)
           => (Len(sleeps) = 1 /\ nrequests = 2)
    /\ (Len(log) = 2 /\ log[2].status = 200 /\ log[2].json /\ ~InFlight)
           => (Returned /\ nrequests = 2)
    /\ (Len(log) = 2 /\ log[2].status = 429 /\ ~InFlight)
           => (pc = "error" /\ err = HTTPError(429) /\ nrequests = 2)

\* What is left of C1 when the first 429 carries no Retry-After header or one
\* that is the text of a non-negative integer.
C1_HoldsForIntegerHeaders ==
    (Len(log) >= 1 /\ (FirstHeader.present => IsNumberText(FirstHeader.value)))
        => C1_ExactlyOneRetry

\* C2 as stated: a first answer whose status is neither 2xx nor 429 ends the call
\* at once with an error carrying that status, after one request and no sleep.
FailsAtOnce(status) ==
    /\ nrequests = 1
    /\ sleeps = <<>>
    /\ pc \in {"check", "raise", "error"}
    /\ pc = "error" => err = HTTPError(status)

C3_Wait(h) == IF h.present /\ IsNumberText(h.value) THEN DigitsValue(h.value) ELSE 5

C3_WaitHintOrDefault ==
    (Len(log) >= 1 /\ FirstStatus = 429 /\ pc # "check")
        => /\ sleeps = <<C3_Wait(FirstHeader)>>
           /\ pc = "retry" \/ nrequests = 2

\* What is left of C3 when the header is absent or the text of a non-negative
\* integer.
C3_HoldsForIntegerHeaders ==
    (Len(log) >= 1 /\ (FirstHeader.present => IsNumberText(FirstHeader.value)))
        => C3_WaitHintOrDefault

\* C4 as stated: with a limit <= 0 building the query fails with InvalidArgument
\* and yields no query text; with a limit > 0 it yields the query text.
LimitOf(q) == PyInt(SubSeq(q, 3, Len(q) - 1))

OptionalFields ==
    [officialWebsites |-> "Official_websites", licenses |-> "Licenses",
     partOf |-> "Part_of", latestReleaseDate |-> "latest_release"]

\* C5: when every row of the result binds item and itemLabel, flattening raises
\* nothing and yields one record per row in the order of the rows; each record
\* carries the row's label and subject, and each optional column holds the bound
\* text or, when the row does not bind it, the empty text (never None).
C5_FlattenIsTotal ==
    /\ (pc = "error" /\ err = KeyError /\ df = <<>> /\ data # <<>>)
           => \E i \in 1..Len(data) : ~Required(data[i])
    /\ pc = "enrich"
           => /\ Len(df) = Len(data)
              /\ \A i \in 1..Len(df) :
                    /\ df[i].Item = data[i].itemLabel
                    /\ df[i].Wikidata = data[i].item
                    /\ \A k \in DOMAIN OptionalFields :
                          /\ df[i][OptionalFields[k]] # None
                          /\ df[i][OptionalFields[k]] =
                                (IF k \in DOMAIN data[i] THEN data[i][k] ELSE <<>>)

C5_Witness ==
    /\ pc = "enrich"
    /\ Len(data) = FlattenRows
    /\ "officialWebsites" \notin DOMAIN data[1]
    /\ "officialWebsites" \in DOMAIN data[2]
    /\ df[1].Official_websites = <<>>
    /\ df[2].Official_websites = <<"x">>

\* C6: after enrichment Has_website is true exactly when the websites text is
\* non-empty once trimmed, Has_license likewise for the licenses text, and
\* Official_website is the part of the websites text before the first literal
\* " | ", or the empty text when there is no website.
C6_PrimaryIsFirstLiteralSegment ==
    pc = "sort"
        => \A i \in 1..Len(df) :
              /\ df[i].Has_website = (Strip(df[i].Official_websites) # <<>>)
              /\ df[i].Has_license = (Strip(df[i].Licenses) # <<>>)
              /\ df[i].Official_website =
                    (IF Strip(df[i].Official_websites) = <<>> THEN <<>>
                     ELSE SplitLiteral(df[i].Official_websites, Delimiter)[1])

\* The part of C6 about the two flags.
C6_FlagsFollowTrimmedText ==
    pc = "sort"
        => \A i \in 1..Len(df) :
              /\ df[i].Has_website = (Strip(df[i].Official_websites) # <<>>)
              /\ df[i].Has_license = (Strip(df[i].Licenses) # <<>>)

\* The binding a sorted record came from, and its place in the result set.
InputPos(row) == CHOOSE i \in 1..Len(data) : data[i].item = row.Wikidata
InputOf(row) == data[InputPos(row)]
DateText(b) == IF "latestReleaseDate" \in DOMAIN b THEN b.latestReleaseDate ELSE <<>>
HasDate(b) == DateText(b) \in {D2020, D2022}
HasSite(b) == "officialWebsites" \in DOMAIN b
HasLic(b) == "licenses" \in DOMAIN b

\* a comes strictly before b by (website first, license first, name ascending).
CoverageBefore(a, b) ==
    \/ HasSite(a) /\ ~HasSite(b)
    \/ /\ HasSite(a) = HasSite(b)
       /\ \/ HasLic(a) /\ ~HasLic(b)
          \/ HasLic(a) = HasLic(b) /\ StrLess(a.itemLabel, b.itemLabel)

\* a comes strictly before b by (date descending with no date last, then as above).
SoftwareBefore(a, b) ==
    \/ HasDate(a) /\ ~HasDate(b)
    \/ HasDate(a) /\ HasDate(b) /\ DateText(a) = D2022 /\ DateText(b) = D2020
    \/ /\ HasDate(a) = HasDate(b)
       /\ HasDate(a) => DateText(a) = DateText(b)
       /\ CoverageBefore(a, b)

\* C7: the sorted software table is ordered by (release date descending, website
\* descending, license descending, name ascending); a record whose release date
\* is absent or is no date holds NaT and comes after every dated record.
C7_SoftwareOrder ==
    (pc = "project" /\ is_software)
        => /\ \A k \in 1..Len(df) : df[k].latest_release.isNaT = ~HasDate(InputOf(df[k]))
           /\ \A k, l \in 1..Len(df) :
                 k < l => /\ ~SoftwareBefore(InputOf(df[l]), InputOf(df[k]))
                          /\ HasDate(InputOf(df[l])) => HasDate(InputOf(df[k]))

C7_Witness ==
    /\ pc = "project"
    /\ is_software
    /\ Len(df) = 2
    /\ DateText(data[1]) = BadMonth /\ HasSite(data[1]) /\ HasLic(data[1])
    /\ DateText(data[2]) = D2020 /\ ~HasSite(data[2]) /\ ~HasLic(data[2])
    /\ df[1].Wikidata = data[2].item
    /\ df[2].Wikidata = data[1].item

\* C8: the sorted ontology table is ordered by (website descending, license
\* descending, name ascending) whatever the release dates are: a record with a
\* website precedes every record without one, then a licensed record precedes an
\* unlicensed one, then the name decides.
C8_OntologyOrder ==
    (pc = "project" /\ ~is_software)
        => \A k, l \in 1..Len(df) :
              k < l => /\ ~CoverageBefore(InputOf(df[l]), InputOf(df[k]))
                       /\ HasSite(InputOf(df[l])) => HasSite(InputOf(df[k]))

C8_Witness ==
    /\ pc = "project"
    /\ ~is_software
    /\ Len(df) = 2
    /\ data[1].itemLabel = <<"A">> /\ ~HasSite(data[1]) /\ HasLic(data[1])
    /\ DateText(data[1]) = D2022
    /\ data[2].itemLabel = <<"B">> /\ HasSite(data[2]) /\ ~HasLic(data[2])
    /\ DateText(data[2]) = D2020
    /\ df[1].Wikidata = data[2].item
    /\ df[2].Wikidata = data[1].item

\* Equal on every sort key of the domain.
SameKeys(a, b) ==
    /\ HasSite(a) = HasSite(b)
    /\ HasLic(a) = HasLic(b)
    /\ a.itemLabel = b.itemLabel
    /\ is_software => /\ HasDate(a) = HasDate(b)
                      /\ HasDate(a) => DateText(a) = DateText(b)

\* C9: in both domains the sorted table holds each input record exactly once,
\* and two records equal on every sort key keep their input order.
C9_StablePermutation ==
    pc = "project"
        => /\ Len(df) = Len(data)
           /\ \A i \in 1..Len(data) :
                 Cardinality({k \in 1..Len(df) : df[k].Wikidata = data[i].item}) = 1
           /\ \A k \in 1..Len(df) :
                 /\ df[k].Item = InputOf(df[k]).itemLabel
                 /\ df[k].Licenses = GetValue(InputOf(df[k]), "licenses")
                 /\ df[k].Official_websites = GetValue(InputOf(df[k]), "officialWebsites")
           /\ \A k, l \in 1..Len(df) :
                 (k < l /\ SameKeys(InputOf(df[k]), InputOf(df[l])))
                     => InputPos(df[k]) < InputPos(df[l])

C9_Witness ==
    /\ pc = "project"
    /\ is_software
    /\ Len(df) = 2
    /\ DateText(data[1]) = BadMonth
    /\ "latestReleaseDate" \notin DOMAIN data[2]
    /\ SameKeys(data[1], data[2])
    /\ df[1].Wikidata = data[1].item
    /\ df[2].Wikidata = data[2].item

\* What makes a resource file unacceptable.
Lacks(d, key) == key \notin DOMAIN d \/ d[key] = Null \/ d[key] = Str(<<>>)
BadKind(d) == ~Lacks(d, "kind") /\ (d.kind.t # "str" \/ d.kind.s \notin ALLOWED_KINDS)
BadFree(d) ==
    /\ ~Lacks(d, "free")
    /\ d.free.t # "bool"
    /\ Lower(Strip(d.free.s)) \notin TrueWords \cup FalseWords
Bad(fp) ==
    /\ ~fp.underscore
    /\ \/ Lacks(fp.data, "id") \/ Lacks(fp.data, "name") \/ Lacks(fp.data, "kind")
       \/ BadKind(fp.data)
       \/ BadFree(fp.data)
BadFiles == {i \in 1..Len(files) : Bad(files[i])}
FirstBad == CHOOSE i \in BadFiles : \A j \in BadFiles : i <= j

\* C10: when some file that is read lacks id, name or kind, has a kind that is
\* not allowed, or a free that is no boolean, neither catalog.csv nor
\* catalog.ttl is ever written and the build ends with ValueError at the first
\* such file; an output is written only once every file has been loaded.
C10_FailFast ==
    /\ BadFiles # {}
           => /\ ~csv.written
              /\ ~ttl.written
              /\ \/ pc = "load" /\ idx < FirstBad
                 \/ pc = "error" /\ err = ValueError /\ idx = FirstBad - 1
    /\ (csv.written \/ ttl.written)
           => /\ idx = Len(files)
              /\ BadFiles = {}
              /\ Len(items) = Cardinality({i \in 1..Len(files) : ~files[i].underscore})
    /\ ttl.written => csv.written

C10_Witness ==
    /\ pc = "error"
    /\ err = ValueError
    /\ Len(files) = MaxFiles
    /\ Len(items) = 1
    /\ BadFree(files[2].data)
    /\ ~csv.written
    /\ ~ttl.written

====
